---- MODULE Spec2Model ----
\* Model of the Google Form schema normalizer (form.parse_form_entries), the
\* answer resolver (form.fill_form_entries) and the LLM batch loop
\* (ggg.fill_with_llm).
\*
\* Python values are represented as follows.
\*   str         a sequence of characters; an ASCII character is the one-letter
\*               string itself, a non-ASCII character is a named token
\*               ("e_acute", "rsquo", "nbsp", "cjk"), and so are the apostrophe
\*               ("apos"), the backtick ("backtick"), tab and newline
\*   int | str   (ids, types) a record PyInt(n) or PyStr(s)
\*   dict key    an optional value is a sequence of length 0 (key absent) or 1
EXTENDS Integers, Sequences, FiniteSets, TLC

VARIABLES v, only_required, entries, outcome, parsed, before, calls,
          llm_pc, total_responses, all_responses, llm_calls

\* v                what get_fb_public_load_data returned to the last parse
\* only_required    the filter the last parse was called with
\* parsed           what the last parse_form_entries returned: "no" (not called),
\*                  "None", "raise" or "list"
\* entries          the list parse_form_entries returned, as fill_form_entries
\*                  has left it
\* outcome          the last operation and how it ended
\* before           entries on entry to the last run of fill_form_entries
\* calls            the calls of fill_algorithm the last run made
\* llm_pc           where fill_with_llm is: "idle", "loop" or "done"
\* total_responses  the target count of fill_with_llm
\* all_responses    the responses accumulated so far
\* llm_calls        the number of call_gpt4 calls, modulo LlmCallsModulus
vars == <<v, only_required, entries, outcome, parsed, before, calls,
          llm_pc, total_responses, all_responses, llm_calls>>

formVars == <<v, only_required, entries, outcome, parsed, before, calls>>
llmVars == <<llm_pc, total_responses, all_responses, llm_calls>>

-----------------------------------------------------------------------------
\* Bounds of the model.

\* Longest question array of a raw dump.
MaxEntries == 2
\* Largest target count of fill_with_llm.
MaxTotal == 4
\* Longest reply list of one LLM call.
MaxReply == 2
\* The calls of call_gpt4 are counted modulo this number.
LlmCallsModulus == 4

-----------------------------------------------------------------------------
\* Python values.

PyInt(n) == [tag |-> "int", n |-> n, s |-> <<>>]
PyStr(s) == [tag |-> "str", n |-> 0, s |-> s]

DigitChars == <<"0", "1", "2", "3", "4", "5", "6", "7", "8", "9">>

\* str(n) for n >= 0.
RECURSIVE IntToStr(_)
IntToStr(n) ==
    IF n < 10 THEN <<DigitChars[n + 1]>>
    ELSE IntToStr(n \div 10) \o <<DigitChars[(n % 10) + 1]>>

\* str(x) as an f-string renders an int or a str.
PyToStr(x) == IF x.tag = "int" THEN IntToStr(x.n) ELSE x.s

\* sep.join(parts)
RECURSIVE Join(_, _)
Join(sep, parts) ==
    IF Len(parts) = 0 THEN <<>>
    ELSE IF Len(parts) = 1 THEN parts[1]
    ELSE parts[1] \o sep \o Join(sep, Tail(parts))

\* [f(0), ..., f(n-1)] for range(n), rendered by str.
RangeStrs(n) == [i \in 1..n |-> IntToStr(i - 1)]

\* Concatenation of a sequence of strings.
RECURSIVE Concat(_)
Concat(parts) == IF Len(parts) = 0 THEN <<>> ELSE parts[1] \o Concat(Tail(parts))

\* Iterating a str yields its characters as strings of length one.
CharsOf(s) == [i \in 1..Len(s) |-> <<s[i]>>]

\* list.index(x) counted from 1: the index of the first element of seq equal to
\* x; 0 when there is none.
RECURSIVE IndexFrom(_, _, _)
IndexFrom(seq, x, i) ==
    IF i > Len(seq) THEN 0 ELSE IF seq[i] = x THEN i ELSE IndexFrom(seq, x, i + 1)
IndexOf(seq, x) == IndexFrom(seq, x, 1)

-----------------------------------------------------------------------------
\* Program constants.

FORM_SESSION_TYPE_ID == 8
ANY_TEXT_FIELD == <<"A", "N", "Y", " ", "T", "E", "X", "T", "!", "!">>
OTHER_OPTION == <<"_", "_", "o", "t", "h", "e", "r", "_", "o", "p", "t", "i", "o", "n", "_", "_">>
OTHER_SUFFIX == <<".", "o", "t", "h", "e", "r", "_", "o", "p", "t", "i", "o", "n", "_",
                  "r", "e", "s", "p", "o", "n", "s", "e">>
OTHER_NAME_SUFFIX == <<" ", "(", "O", "t", "h", "e", "r", ")">>
EMAIL_ID == <<"e", "m", "a", "i", "l", "A", "d", "d", "r", "e", "s", "s">>
EMAIL_NAME == <<"E", "m", "a", "i", "l", " ", "A", "d", "d", "r", "e", "s", "s">>
EMAIL_OPTIONS == <<"e", "m", "a", "i", "l", " ", "a", "d", "d", "r", "e", "s", "s">>
PAGE_ID == <<"p", "a", "g", "e", "H", "i", "s", "t", "o", "r", "y">>
PAGE_NAME == <<"P", "a", "g", "e", " ", "H", "i", "s", "t", "o", "r", "y">>
PAGE_OPTIONS == <<"f", "r", "o", "m", " ", "0", " ", "t", "o", " ", "(", "n", "u", "m", "b", "e", "r",
                  " ", "o", "f", " ", "p", "a", "g", "e", " ", "-", " ", "1", ")">>
REQUIRED_TYPE == <<"r", "e", "q", "u", "i", "r", "e", "d">>
TEXT_TYPE == <<"t", "e", "x", "t">>
NAME_SEP == <<" ", "-", " ">>

-----------------------------------------------------------------------------
\* normalize_text

UpperChars == <<"A", "B", "C", "D", "E", "F", "G", "H", "I", "J", "K", "L", "M",
                "N", "O", "P", "Q", "R", "S", "T", "U", "V", "W", "X", "Y", "Z">>
LowerChars == <<"a", "b", "c", "d", "e", "f", "g", "h", "i", "j", "k", "l", "m",
                "n", "o", "p", "q", "r", "s", "t", "u", "v", "w", "x", "y", "z">>

\* unicodedata.normalize('NFKD', c).encode('ascii', 'ignore') of one character:
\* an accented letter decomposes into its base letter and a combining mark,
\* which is not ASCII and is dropped; a no-break space decomposes into a space;
\* a character with no ASCII decomposition (a curly apostrophe, a CJK
\* character) is dropped; an ASCII character is kept.
AsciiFold(c) ==
    CASE c = "e_acute"   -> <<"e">>
      [] c = "E_acute"   -> <<"E">>
      [] c = "nbsp"      -> <<" ">>
      [] c = "rsquo"     -> <<>>
      [] c = "cjk"       -> <<>>
      [] OTHER           -> <<c>>

\* The chain of str.replace calls, per character: the curly apostrophe and the
\* backtick become a plain apostrophe.
FoldQuote(c) == IF c \in {"rsquo", "backtick"} THEN "apos" ELSE c

IsSpace(c) == c \in {" ", "tab", "newline"}

\* re.sub(r'\s+', ' ', text)
RECURSIVE CollapseSpaces(_)
CollapseSpaces(s) ==
    IF Len(s) = 0 THEN <<>>
    ELSE IF IsSpace(s[1])
         THEN IF Len(s) > 1 /\ IsSpace(s[2])
              THEN CollapseSpaces(Tail(s))
              ELSE <<" ">> \o CollapseSpaces(Tail(s))
         ELSE <<s[1]>> \o CollapseSpaces(Tail(s))

\* str.strip()
RECURSIVE LStrip(_)
LStrip(s) == IF Len(s) > 0 /\ IsSpace(s[1]) THEN LStrip(Tail(s)) ELSE s
RECURSIVE RStrip(_)
RStrip(s) == IF Len(s) > 0 /\ IsSpace(s[Len(s)]) THEN RStrip(SubSeq(s, 1, Len(s) - 1)) ELSE s
Strip(s) == RStrip(LStrip(s))

\* str.lower() of one ASCII character.
LowerOf == [c \in {UpperChars[i] : i \in 1..Len(UpperChars)} |->
              LowerChars[CHOOSE i \in 1..Len(UpperChars) : UpperChars[i] = c]]
LowerChar(c) == IF c \in DOMAIN LowerOf THEN LowerOf[c] ELSE c
Lower(s) == [i \in 1..Len(s) |-> LowerChar(s[i])]

AsciiFoldText(text) == Concat([i \in 1..Len(text) |-> AsciiFold(text[i])])
FoldQuotes(text) == [i \in 1..Len(text) |-> FoldQuote(text[i])]

normalize_text(text) == Lower(Strip(CollapseSpaces(FoldQuotes(AsciiFoldText(text)))))

-----------------------------------------------------------------------------
\* Raw dumps (the decoded FB_PUBLIC_LOAD_DATA_ array) the model draws from.

\* A sub-entry x[4][i]: id x[4][i][0], options x[4][i][1] (None is <<>>, a list
\* of option labels is <<labels>>; a None label is the empty string), required
\* x[4][i][2], names x[4][i][3].
SubEntry(id, options, required, names) ==
    [id |-> id, options |-> options, required |-> required, names |-> names]

\* An entry x: name x[1], type x[3], sub-entries x[4] (None is <<>>).
RawEntry(name, type, subs) == [name |-> name, type |-> type, subs |-> subs]

OptAccent == <<"B", "e_acute">>
OptPlain == <<"b", "e">>
OptBlank == <<>>
OptCjk == <<"cjk">>
OptQuote == <<"a", "backtick">>

\* A choice question: two of its options normalize to the same text, one has no
\* label and one is not ASCII.
QChoice ==
    RawEntry(<<"C">>, 2,
        << <<SubEntry(2, << <<OptAccent, OptPlain, OptBlank, OptCjk>> >>, 1, <<>>)>> >>)
\* A question of two sub-entries: a required one with one option and an optional
\* one with no options (free text).
QGrid ==
    RawEntry(<<"G">>, 7,
        << <<SubEntry(3, << <<OptQuote>> >>, 1, << <<"r">> >>),
             SubEntry(4, <<>>, 0, << <<"r">>, <<"c">> >>)>> >>)
\* A page break; the loop skips it whatever it holds.
QPage == RawEntry(<<"P">>, FORM_SESSION_TYPE_ID, << <<SubEntry(5, <<>>, 0, <<>>)>> >>)
\* An entry whose x[4] is None (a title or description).
QTitle == RawEntry(<<"H">>, 6, <<>>)

QuestionPool == {QChoice, QGrid, QPage, QTitle}

RECURSIVE SeqsUpTo(_, _)
SeqsUpTo(S, n) ==
    IF n = 0 THEN {<<>>}
    ELSE LET shorter == SeqsUpTo(S, n - 1)
         IN  shorter \cup {Append(q, x) : q \in {r \in shorter : Len(r) = n - 1}, x \in S}

\* The email-collection modes of the docstring: 1 do not collect, 2 verified,
\* 3 responder input.
EmailModes == {1, 2, 3}

\* What get_fb_public_load_data returns: None (fetch "http_error", "no_match"
\* or "bad_json") or a decoded list. A decoded list has top_len elements; its
\* element v[1] is None (v1_len = -1) or a list of v1_len elements, whose element
\* v[1][1] is None (<<>>) or the question array (<<questions>>), and whose
\* element v[1][10][6] is email_mode.
Dump(fetch, top_len, v1_len, questions, email_mode) ==
    [fetch |-> fetch, top_len |-> top_len, v1_len |-> v1_len,
     questions |-> questions, email_mode |-> email_mode]

FailedDumps ==
    {Dump(f, 0, -1, <<>>, 1) : f \in {"http_error", "no_match", "bad_json"}}
    \cup {Dump("decoded", 0, -1, <<>>, 1),
          Dump("decoded", 1, -1, <<>>, 1),
          Dump("decoded", 2, -1, <<>>, 1),
          Dump("decoded", 2, 0, <<>>, 1),
          Dump("decoded", 2, 1, <<>>, 1),
          Dump("decoded", 2, 11, <<>>, 1),
          Dump("decoded", 2, 11, << <<>> >>, 1)}

FormDumps ==
    {Dump("decoded", 4, 11, <<qs>>, m) :
        qs \in SeqsUpTo(QuestionPool, MaxEntries) \ {<<>>}, m \in EmailModes}

Dumps == FailedDumps \cup FormDumps

-----------------------------------------------------------------------------
\* parse_form_entries

\* A descriptor (a dict of parsed_entries). options is None ("none"), a list of
\* strings ("list"), a str ("str", items holding its characters) or a missing
\* key ("absent"); default_value and name are <<>> when the key is missing (or
\* None) and <<value>> otherwise.
NoOptions == [kind |-> "none", items |-> <<>>]
AbsentOptions == [kind |-> "absent", items |-> <<>>]
ListOptions(items) == [kind |-> "list", items |-> items]
StrOptions(s) == [kind |-> "str", items |-> CharsOf(s)]

Descriptor(id, container_name, type, required, name, options, default_value) ==
    [id |-> id, container_name |-> container_name, type |-> type, required |-> required,
     name |-> name, options |-> options, default_value |-> default_value]

\* [(x[0] or ANY_TEXT_FIELD) for x in sub_entry[1]] if sub_entry[1] else None
OptionLabel(label) == IF Len(label) > 0 THEN label ELSE ANY_TEXT_FIELD

ParseOptions(raw) ==
    IF Len(raw) = 1 /\ Len(raw[1]) > 0
    THEN ListOptions([i \in 1..Len(raw[1]) |-> OptionLabel(raw[1][i])])
    ELSE NoOptions

\* ' - '.join(sub_entry[3]) if (len(sub_entry) > 3 and sub_entry[3]) else None
ParseName(names) == IF Len(names) > 0 THEN <<Join(NAME_SEP, names)>> ELSE <<>>

SubEntryInfo(entry, sub_entry) ==
    Descriptor(PyInt(sub_entry.id), entry.name, PyInt(entry.type), sub_entry.required = 1,
               ParseName(sub_entry.names), ParseOptions(sub_entry.options), <<>>)

RECURSIVE ParseSubEntries(_, _, _)
ParseSubEntries(entry, subs, req) ==
    IF Len(subs) = 0 THEN <<>>
    ELSE LET info == SubEntryInfo(entry, subs[1])
         IN  IF req /\ ~info.required
             THEN ParseSubEntries(entry, Tail(subs), req)
             ELSE <<info>> \o ParseSubEntries(entry, Tail(subs), req)

\* parse_entry: an entry whose entry[4] is no list yields nothing.
parse_entry(entry, req) ==
    IF Len(entry.subs) = 1 THEN ParseSubEntries(entry, entry.subs[1], req) ELSE <<>>

\* The loop over v[1][1]: acc is [parsed_entries, page_count].
RECURSIVE ParseLoop(_, _, _)
ParseLoop(questions, req, acc) ==
    IF Len(questions) = 0 THEN acc
    ELSE IF questions[1].type = FORM_SESSION_TYPE_ID
         THEN ParseLoop(Tail(questions), req,
                        [acc EXCEPT !.page_count = acc.page_count + 1])
         ELSE ParseLoop(Tail(questions), req,
                        [acc EXCEPT !.parsed_entries =
                            acc.parsed_entries \o parse_entry(questions[1], req)])

EmailEntry ==
    Descriptor(PyStr(EMAIL_ID), EMAIL_NAME, PyStr(REQUIRED_TYPE), TRUE, <<>>,
               StrOptions(EMAIL_OPTIONS), <<>>)

\* A normalizer that takes mode 2 (verified email) for "do not collect".
CollectsEmail_OnlyInput(email_mode) == email_mode > 2

\* The condition under which the email pseudo-field is appended.
CollectsEmail(email_mode) == email_mode > 1

\* A normalizer whose page history stops one page short.
PageHistoryDefault_Short(page_count) == Join(<<",">>, RangeStrs(page_count))

PageHistoryDefault(page_count) == Join(<<",">>, RangeStrs(page_count + 1))

PageHistoryEntry(page_count) ==
    Descriptor(PyStr(PAGE_ID), PAGE_NAME, PyStr(REQUIRED_TYPE), FALSE, <<>>,
               StrOptions(PAGE_OPTIONS), <<PageHistoryDefault(page_count)>>)

\* The guard of line 79 in Python's evaluation order: "None" when it returns
\* None, "raise" when an index is out of range, "ok" when parsing goes on.
DumpGuard(dump) ==
    IF dump.fetch # "decoded" \/ dump.top_len = 0 THEN "None"
    ELSE IF dump.top_len < 2 THEN "raise"
    ELSE IF dump.v1_len <= 0 THEN "None"
    ELSE IF dump.v1_len < 2 THEN "raise"
    ELSE IF Len(dump.questions) = 0 \/ Len(dump.questions[1]) = 0 THEN "None"
    ELSE "ok"

\* parse_form_entries: [ret, entries], ret being "None", "raise" or "list".
parse_form_entries(dump, req) ==
    IF DumpGuard(dump) # "ok" THEN [ret |-> DumpGuard(dump), entries |-> <<>>]
    ELSE LET acc == ParseLoop(dump.questions[1], req,
                              [parsed_entries |-> <<>>, page_count |-> 0])
             withEmail == IF CollectsEmail(dump.email_mode)
                          THEN Append(acc.parsed_entries, EmailEntry)
                          ELSE acc.parsed_entries
             withPage == IF acc.page_count > 0
                         THEN Append(withEmail, PageHistoryEntry(acc.page_count))
                         ELSE withEmail
         IN  [ret |-> "list", entries |-> withPage]

-----------------------------------------------------------------------------
\* fill_form_entries

\* Truthiness of a str.
Truthy(text) == Len(text) > 0

\* entry.get('default_value') is truthy: the key is present and its value is
\* not the empty string.
HasDefault(entry) == Len(entry.default_value) = 1 /\ Truthy(entry.default_value[1])

\* (entry['options'] or [])[::] as the sequence the loop iterates and indexes:
\* the items of a list, the characters of a str, nothing for None.
OptionsCopy(entry) == entry.options.items

NormalizedOptions(options) == [i \in 1..Len(options) |-> normalize_text(options[i])]

\* The condition of the first branch: selected_value and options and
\* normalized_selected_value in normalized_options.
MatchesOption(selected_value, options, normalized_selected_value, normalized_options) ==
    /\ Truthy(selected_value)
    /\ Len(options) > 0
    /\ IndexOf(normalized_options, normalized_selected_value) > 0

\* The condition of the second branch, tried when the first fails.
NeedsOther(selected_value, options) == Truthy(selected_value) /\ Len(options) > 0

\* A resolver that stores the normalized text it compared instead of the
\* option's original text.
OriginalValue_Normalized(options, normalized_selected_value, normalized_options) ==
    normalized_selected_value

\* options[normalized_options.index(normalized_selected_value)]
OriginalValue(options, normalized_selected_value, normalized_options) ==
    options[IndexOf(normalized_options, normalized_selected_value)]

\* A resolver that names every synthesized entry alike, without the parent id.
OtherOptionId_NoParent(id) == PyStr(OTHER_SUFFIX)

OtherOptionId(id) == PyStr(PyToStr(id) \o OTHER_SUFFIX)

\* A resolver that stores the normalized candidate in the synthesized entry.
OtherOptionEntry_Normalized(entry, selected_value) ==
    Descriptor(PyStr(PyToStr(entry.id) \o OTHER_SUFFIX), entry.container_name \o OTHER_NAME_SUFFIX,
               PyStr(TEXT_TYPE), entry.required, <<>>, AbsentOptions,
               <<normalize_text(selected_value)>>)

\* other_option_entry: it has no 'options' and no 'name' key.
OtherOptionEntry(entry, selected_value) ==
    Descriptor(OtherOptionId(entry.id), entry.container_name \o OTHER_NAME_SUFFIX,
               PyStr(TEXT_TYPE), entry.required, <<>>, AbsentOptions, <<selected_value>>)

\* A resolver that inserts the synthesized entry at the head of the list.
AppendOther_AtHead(es, other) == <<other>> \o es

\* entries.append(other_option_entry)
AppendOther(es, other) == Append(es, other)

\* The if/elif/else of the loop body for one entry and the strategy's answer:
\* the default_value it stores and the entry it appends, if any.
ResolveEntry(entry, selected_value) ==
    LET options == OptionsCopy(entry)
        normalized_options == NormalizedOptions(options)
        normalized_selected_value == normalize_text(selected_value)
    IN  IF MatchesOption(selected_value, options, normalized_selected_value, normalized_options)
        THEN [default_value |->
                 OriginalValue(options, normalized_selected_value, normalized_options),
              other |-> <<>>]
        ELSE IF NeedsOther(selected_value, options)
        THEN [default_value |-> OTHER_OPTION,
              other |-> <<OtherOptionEntry(entry, selected_value)>>]
        ELSE [default_value |-> selected_value, other |-> <<>>]

\* The body of the loop for the entry at index i: the entry is updated in place
\* and the new entry, if any, is appended to the list being iterated.
Resolve(es, i, selected_value) ==
    LET r == ResolveEntry(es[i], selected_value)
        updated == [es EXCEPT ![i].default_value = <<r.default_value>>]
    IN  IF Len(r.other) = 1 THEN AppendOther(updated, r.other[1]) ELSE updated

\* The value fill_algorithm returns for an entry. A strategy of the model is
\* keyed by the entry id, as fill_with_json_values is by "entry.<id>"; for an id
\* it has no value for it returns the empty string.
Answer(answers, entry) ==
    IF entry.id \in DOMAIN answers THEN answers[entry.id] ELSE <<>>

\* for entry in entries: a list iterator reads es[i] while i is within the
\* current length, so entries appended during the loop are visited too. log
\* records each call of fill_algorithm: the index and id of the entry and the
\* answer returned.
RECURSIVE FillLoop(_, _, _, _)
FillLoop(es, i, answers, log) ==
    IF i > Len(es) THEN [ret |-> "list", entries |-> es, calls |-> log]
    ELSE IF HasDefault(es[i]) THEN FillLoop(es, i + 1, answers, log)
    ELSE IF es[i].options.kind = "absent"
         THEN [ret |-> "raise", entries |-> es, calls |-> log]
    ELSE LET selected_value == Answer(answers, es[i])
         IN  FillLoop(Resolve(es, i, selected_value), i + 1, answers,
                      Append(log, [index |-> i, id |-> es[i].id, answer |-> selected_value]))

\* fill_form_entries(entries, fill_algorithm); is_list is false when entries is
\* None, which cannot be iterated.
fill_form_entries(is_list, es, answers) ==
    IF ~is_list THEN [ret |-> "raise", entries |-> es, calls |-> <<>>]
    ELSE FillLoop(es, 1, answers, <<>>)

\* Answers the strategies of the model return: the empty string, a text that
\* differs from an option in case and spacing, and a text of one non-ASCII
\* character, which is not empty but normalizes to the empty string.
CandEmpty == <<>>
CandSpaced == <<" ", "B", "E">>
CandCurly == <<"rsquo">>
Candidates == {CandEmpty, CandSpaced, CandCurly}

\* The ids of the entries a run asks the strategy about.
FillableIds(es) == {es[i].id : i \in {j \in 1..Len(es) : ~HasDefault(es[j])}}

\* The strategies of the model for a list of entries.
Strategies(es) == [FillableIds(es) -> Candidates]

-----------------------------------------------------------------------------
\* get_form_submit_request

\* The value get_form_submit_request returns with output = "return": "None",
\* "raise" or "result" (the generated request body).
get_form_submit_request(dump, req, with_fill, answers) ==
    LET p == parse_form_entries(dump, req)
    IN  IF p.ret = "raise" THEN "raise"
        ELSE LET filled == IF with_fill
                           THEN fill_form_entries(p.ret = "list", p.entries, answers)
                           ELSE [ret |-> p.ret, entries |-> p.entries, calls |-> <<>>]
             IN  IF filled.ret = "raise" THEN "raise"
                 ELSE IF filled.ret = "None" \/ Len(filled.entries) = 0 THEN "None"
                 ELSE "result"

-----------------------------------------------------------------------------
\* call_gpt4 and the batch loop of fill_with_llm

ResponseItems == {"r1", "r2"}

\* What the model replies: text that is no JSON, JSON that is no array, or a
\* JSON array of items.
LlmReplies ==
    {[kind |-> "garbage", items |-> <<>>], [kind |-> "object", items |-> <<>>]}
    \cup {[kind |-> "array", items |-> r] : r \in SeqsUpTo(ResponseItems, MaxReply)}

call_gpt4(reply) == IF reply.kind = "array" THEN reply.items ELSE <<>>

\* all_responses[:total_responses]
Truncate(s, n) == IF Len(s) > n THEN SubSeq(s, 1, n) ELSE s

\* One pass of the loop body.
ExtendResponses(all, batch, total) ==
    IF Len(all \o batch) >= total THEN Truncate(all \o batch, total) ELSE all \o batch

-----------------------------------------------------------------------------
\* The state machine.

NoDump == Dump("none", 0, -1, <<>>, 1)

Init ==
    /\ v = NoDump
    /\ only_required = FALSE
    /\ entries = <<>>
    /\ parsed = "no"
    /\ outcome = [op |-> "init", ret |-> "None"]
    /\ before = <<>>
    /\ calls = <<>>
    /\ llm_pc = "idle"
    /\ total_responses = 0
    /\ all_responses = <<>>
    /\ llm_calls = 0

\* The first call of a session: parse_form_entries(url, only_required), whose
\* fetch yields dump.
ParseFormEntries ==
    /\ outcome.op = "init"
    /\ \E dump \in Dumps, req \in BOOLEAN :
        LET p == parse_form_entries(dump, req)
        IN  /\ v' = dump
            /\ only_required' = req
            /\ entries' = p.entries
            /\ parsed' = p.ret
            /\ outcome' = [op |-> "parse", ret |-> p.ret]
            /\ before' = <<>>
            /\ calls' = <<>>
            /\ UNCHANGED llmVars

\* A call of fill_form_entries on the list as it stands (or on the None the
\* parse returned), any number of times, with a
\* strategy drawn from Strategies.
FillFormEntries ==
    /\ parsed \in {"None", "list"}
    /\ \E answers \in Strategies(entries) :
        LET r == fill_form_entries(parsed = "list", entries, answers)
        IN  /\ entries' = r.entries
            /\ before' = entries
            /\ calls' = r.calls
            /\ outcome' = [op |-> "fill", ret |-> r.ret]
    /\ UNCHANGED <<v, only_required, parsed, llmVars>>

\* The first call of a session: get_form_submit_request(url, "return",
\* only_required, fill_algorithm = None or a strategy that always answers c).
GetFormSubmitRequest ==
    /\ outcome.op = "init"
    /\ \E dump \in Dumps, req \in BOOLEAN, with_fill \in BOOLEAN, c \in Candidates :
        LET answers == [id \in FillableIds(parse_form_entries(dump, req).entries) |-> c]
        IN  /\ v' = dump
            /\ only_required' = req
            /\ outcome' = [op |-> IF with_fill THEN "submit_fill" ELSE "submit",
                           ret |-> get_form_submit_request(dump, req, with_fill, answers)]
            /\ entries' = <<>>
            /\ parsed' = "no"
            /\ before' = <<>>
            /\ calls' = <<>>
            /\ UNCHANGED llmVars

Next == ParseFormEntries \/ FillFormEntries \/ GetFormSubmitRequest

Spec == Init /\ [][Next]_vars

\* fill_with_llm is called with a target count.
LlmStart ==
    /\ llm_pc = "idle"
    /\ \E t \in 0..MaxTotal :
        /\ total_responses' = t
        /\ llm_pc' = IF 0 < t THEN "loop" ELSE "done"
    /\ all_responses' = <<>>
    /\ llm_calls' = 0
    /\ UNCHANGED formVars

\* One iteration of the while loop: a call of call_gpt4, the extend, the trim and
\* the loop test. llm_calls counts the calls modulo LlmCallsModulus.
LlmBatch ==
    /\ llm_pc = "loop"
    /\ \E reply \in LlmReplies :
        LET all == ExtendResponses(all_responses, call_gpt4(reply), total_responses)
        IN  /\ all_responses' = all
            /\ llm_pc' = IF Len(all) < total_responses THEN "loop" ELSE "done"
    /\ llm_calls' = (llm_calls + 1) % LlmCallsModulus
    /\ UNCHANGED <<total_responses, formVars>>

LlmNext == LlmStart \/ LlmBatch

\* The loop is sequential and blocking: a pending call is eventually made.
LlmSpec == Init /\ [][LlmNext]_vars /\ WF_vars(LlmStart) /\ WF_vars(LlmBatch)

-----------------------------------------------------------------------------
\* Vocabulary of the properties.

\* The last operation was a run of fill_form_entries that returned the list.
FillReturned == outcome.op = "fill" /\ outcome.ret = "list"

\* The last operation was a parse_form_entries that returned a list.
ParseReturned == outcome.op = "parse" /\ outcome.ret = "list"

\* The descriptor, as it was on entry to the run, that a logged call was about.
CalledEntry(c) == before[c.index]

\* The candidate of a call normalizes to the same text as some option.
HasMatch(c) ==
    \E j \in 1..Len(OptionsCopy(CalledEntry(c))) :
        normalize_text(OptionsCopy(CalledEntry(c))[j]) = normalize_text(c.answer)

\* The first option, in list order, the candidate of a call matches.
FirstMatch(c) ==
    LET options == OptionsCopy(CalledEntry(c))
        j == CHOOSE m \in 1..Len(options) :
                /\ normalize_text(options[m]) = normalize_text(c.answer)
                /\ \A l \in 1..(m - 1) : normalize_text(options[l]) # normalize_text(c.answer)
    IN  options[j]

\* "<id>.other_option_response"
OtherResponseId(id) == PyStr(PyToStr(id) \o OTHER_SUFFIX)

\* The indices of the entries the last run appended.
AppendedIndices == (Len(before) + 1)..Len(entries)

\* The last run appended no '.other_option_response' entry for the descriptor.
NoOtherFor(e) == \A i \in AppendedIndices : entries[i].id # OtherResponseId(e.id)

\* The calls of the last run whose descriptor has options none of which the
\* non-empty candidate matches.
IsUnmatchedNonEmpty(c) ==
    Truthy(c.answer) /\ Len(OptionsCopy(CalledEntry(c))) > 0 /\ ~HasMatch(c)

\* The r-th call of others stored the marker and the r-th appended entry is its
\* '.other_option_response' entry.
OthersAppended(others) ==
    /\ Len(entries) = Len(before) + Len(others)
    /\ \A r \in 1..Len(others) :
        LET c == others[r]
            new == entries[Len(before) + r]
        IN  /\ entries[c.index].default_value = <<OTHER_OPTION>>
            /\ new.id = OtherResponseId(CalledEntry(c).id)
            /\ new.type = PyStr(TEXT_TYPE)
            /\ new.required = CalledEntry(c).required
            /\ new.default_value = <<c.answer>>

-----------------------------------------------------------------------------
\* The descriptor of a call has a non-empty list of options.
HasOptionList(c) ==
    CalledEntry(c).options.kind = "list" /\ Len(OptionsCopy(CalledEntry(c))) > 0

\* C1 as stated: after a run of fill_form_entries, every descriptor that had no
\* default, has a non-empty option list and whose candidate normalizes to the
\* same text as an option has the original text of the first such option as its
\* default_value, and no '.other_option_response' entry was appended for it.
C1_MatchStoresOriginal ==
    FillReturned =>
        \A k \in 1..Len(calls) :
            (HasOptionList(calls[k]) /\ HasMatch(calls[k])) =>
                /\ entries[calls[k].index].default_value = <<FirstMatch(calls[k])>>
                /\ NoOtherFor(CalledEntry(calls[k]))

\* C1 amended: the same for every non-empty candidate, whether the options are
\* a list or the characters of a str. (An empty candidate is stored as it is,
\* even when an option normalizes to the empty text.)
C1_NonEmptyMatchStoresOriginal ==
    FillReturned =>
        \A k \in 1..Len(calls) :
            (/\ Truthy(calls[k].answer)
             /\ Len(OptionsCopy(CalledEntry(calls[k]))) > 0
             /\ HasMatch(calls[k])) =>
                /\ entries[calls[k].index].default_value = <<FirstMatch(calls[k])>>
                /\ NoOtherFor(CalledEntry(calls[k]))

\* A run in which the candidate " BE" matched both "B<e acute>" and "be" and the
\* first of them, in its original spelling, was stored.
C1_Witness ==
    /\ FillReturned
    /\ \E k \in 1..Len(calls) :
        /\ calls[k].answer = CandSpaced
        /\ HasMatch(calls[k])
        /\ entries[calls[k].index].default_value = <<OptAccent>>

\* C2 as stated: after a run, every descriptor that had no default, has an
\* option list and whose candidate (any candidate, the empty string included)
\* matches no option stores the marker "__other_option__", and an entry is
\* appended for it, with id "<id>.other_option_response", type "text", the same
\* required flag and the raw candidate as default_value.
C2_UnmatchedGoesToOther ==
    FillReturned =>
        \A k \in 1..Len(calls) :
            (HasOptionList(calls[k]) /\ ~HasMatch(calls[k])) =>
                /\ entries[calls[k].index].default_value = <<OTHER_OPTION>>
                /\ \E i \in AppendedIndices :
                    /\ entries[i].id = OtherResponseId(CalledEntry(calls[k]).id)
                    /\ entries[i].type = PyStr(TEXT_TYPE)
                    /\ entries[i].required = CalledEntry(calls[k]).required
                    /\ entries[i].default_value = <<calls[k].answer>>

\* C2 amended: every descriptor that has options (a list, or the characters
\* of a str) and gets a non-empty candidate that matches none of them stores
\* the marker, and the run appends exactly one such entry for each of them, in
\* their order, and nothing else. (An empty candidate is stored as it is and
\* nothing is appended for it.)
C2_NonEmptyUnmatchedGoesToOther ==
    FillReturned => OthersAppended(SelectSeq(calls, IsUnmatchedNonEmpty))

\* A run that appended an entry holding a candidate that differs from its
\* normalized text.
C2_Witness ==
    /\ FillReturned
    /\ \E k \in 1..Len(calls) :
        /\ IsUnmatchedNonEmpty(calls[k])
        /\ normalize_text(calls[k].answer) # calls[k].answer
    /\ Len(entries) > Len(before)

\* C3: a run on a list in which every descriptor already has a default_value
\* (whatever its value, the empty string included) returns the list as it was
\* and never calls the fill strategy.
C3_ResolvedListUnchanged ==
    (/\ outcome.op = "fill"
     /\ parsed = "list"
     /\ \A i \in 1..Len(before) : Len(before[i].default_value) = 1) =>
        /\ outcome.ret = "list"
        /\ entries = before
        /\ calls = <<>>

\* C4: when schema extraction fails (the fetch fails, the data block is absent
\* or malformed, or the decoded dump lacks the question array),
\* parse_form_entries and get_form_submit_request, with or without a fill
\* strategy, return None and do not raise.
C4_FailureReturnsNone ==
    (outcome.op \in {"parse", "submit", "submit_fill"} /\ v \in FailedDumps) =>
        outcome.ret = "None"

\* "0,1,...,n"
RECURSIVE CommaRange(_)
CommaRange(n) == IF n = 0 THEN <<"0">> ELSE CommaRange(n - 1) \o <<",">> \o IntToStr(n)

\* The number of page-break entries of the question array of a dump.
PageBreaks(dump) ==
    Cardinality({i \in 1..Len(dump.questions[1]) :
                    dump.questions[1][i].type = FORM_SESSION_TYPE_ID})

PageHistoryIndices == {i \in 1..Len(entries) : entries[i].id = PyStr(PAGE_ID)}

\* C5: parse_form_entries emits no descriptor for a page-break entry; when the
\* question array has pageCount > 0 of them it emits exactly one "pageHistory"
\* pseudo-field, whose default_value is "0,1,...,pageCount", and when it has
\* none it emits no such pseudo-field.
C5_PageHistory ==
    ParseReturned =>
        /\ \A i \in 1..Len(entries) : entries[i].type # PyInt(FORM_SESSION_TYPE_ID)
        /\ IF PageBreaks(v) > 0
           THEN /\ Cardinality(PageHistoryIndices) = 1
                /\ \A i \in PageHistoryIndices :
                    entries[i].default_value = <<CommaRange(PageBreaks(v))>>
           ELSE PageHistoryIndices = {}

\* A parse of a dump with two page breaks and a question.
C5_Witness ==
    /\ ParseReturned
    /\ PageBreaks(v) = 2
    /\ Len(entries) > 1
    /\ \E i \in PageHistoryIndices : entries[i].default_value = <<<<"0", ",", "1", ",", "2">>>>

EmailIndices == {i \in 1..Len(entries) : entries[i].id = PyStr(EMAIL_ID)}

\* C6: parse_form_entries emits exactly one "emailAddress" pseudo-field, which
\* is required, when the email-collection mode is not 1 ("do not collect"), and
\* none when it is.
C6_EmailPseudoField ==
    ParseReturned =>
        /\ Cardinality(EmailIndices) = (IF v.email_mode # 1 THEN 1 ELSE 0)
        /\ \A i \in EmailIndices : entries[i].required

\* A parse, with the required-only filter, of a dump in mode 2 that holds a
\* question.
C6_Witness ==
    /\ ParseReturned
    /\ v.email_mode = 2
    /\ only_required
    /\ Len(entries) > 1
    /\ EmailIndices # {}

\* The ids of all sub-entries of a dump, in order.
SubEntryIds(dump) ==
    Concat([i \in 1..Len(dump.questions[1]) |->
              LET q == dump.questions[1][i]
              IN  IF Len(q.subs) = 1 THEN [j \in 1..Len(q.subs[1]) |-> q.subs[1][j].id]
                  ELSE <<>>])

PairwiseDistinct(seq) == \A i, j \in 1..Len(seq) : i # j => seq[i] # seq[j]

\* C7: for a dump whose sub-entry ids are pairwise distinct, the ids of the
\* list are pairwise distinct after the parse and after every run of
\* fill_form_entries that follows.
C7_UniqueIds ==
    (parsed = "list" /\ PairwiseDistinct(SubEntryIds(v))) =>
        PairwiseDistinct([i \in 1..Len(entries) |-> entries[i].id])

\* A later run on a list that already holds a synthesized entry, which appends
\* another one.
C7_Witness ==
    /\ FillReturned
    /\ PairwiseDistinct(SubEntryIds(v))
    /\ \E i \in 1..Len(before) : before[i].options.kind = "absent"
    /\ Len(entries) > Len(before)
    /\ EmailIndices # {}

\* C8: the batch loop of fill_with_llm always terminates, whatever the replies,
\* and exits with exactly total_responses responses.
C8_LoopTerminates ==
    /\ (llm_pc = "loop") ~> (llm_pc = "done")
    /\ [](llm_pc = "done" => Len(all_responses) = total_responses)

\* C9: a run of fill_form_entries that gets a non-empty candidate for the
\* "emailAddress" pseudo-field stores the raw candidate as its default_value,
\* never the marker, and appends no "emailAddress.other_option_response" entry.
C9_EmailStoresCandidate ==
    FillReturned =>
        \A k \in 1..Len(calls) :
            (CalledEntry(calls[k]).id = PyStr(EMAIL_ID) /\ Truthy(calls[k].answer)) =>
                /\ entries[calls[k].index].default_value = <<calls[k].answer>>
                /\ entries[calls[k].index].default_value # <<OTHER_OPTION>>
                /\ \A i \in 1..Len(entries) : entries[i].id # OtherResponseId(PyStr(EMAIL_ID))

\* The answer the last run got for the entry at index i.
AnswerAt(i) == calls[CHOOSE k \in 1..Len(calls) : calls[k].index = i].answer

\* A resolver in two passes: the first resolves the descriptors that have no
\* default, in place; the second appends the synthesized entries in the order
\* of their parents.
TwoPass(es) ==
    LET first == [i \in 1..Len(es) |->
                    IF HasDefault(es[i]) THEN es[i]
                    ELSE [es[i] EXCEPT !.default_value =
                            <<ResolveEntry(es[i], AnswerAt(i)).default_value>>]]
        second == Concat([i \in 1..Len(es) |->
                    IF HasDefault(es[i]) THEN <<>>
                    ELSE ResolveEntry(es[i], AnswerAt(i)).other])
    IN  first \o second

\* C10: a run of fill_form_entries calls the fill strategy exactly once for
\* each descriptor that had no default on entry, in list order, and never for a
\* synthesized entry, and it returns what the two-pass resolver returns: the
\* original descriptors in their order, then the synthesized ones in the order
\* of their parents.
C10_TwoPassEquivalent ==
    (outcome.op = "fill" /\ parsed = "list") =>
        /\ outcome.ret = "list"
        /\ \A k \in 1..Len(calls) :
            /\ calls[k].index \in 1..Len(before)
            /\ before[calls[k].index].options.kind # "absent"
            /\ \A l \in 1..(k - 1) : calls[l].index < calls[k].index
        /\ \A i \in 1..Len(before) :
            Cardinality({k \in 1..Len(calls) : calls[k].index = i})
                = (IF HasDefault(before[i]) THEN 0 ELSE 1)
        /\ entries = TwoPass(before)

\* A run in which two descriptors got a synthesized entry and a descriptor that
\* follows the first of them was resolved after that entry was appended.
C10_Witness ==
    /\ FillReturned
    /\ Len(entries) >= Len(before) + 2
    /\ \E k \in 1..Len(calls) :
        /\ k < Len(calls)
        /\ entries[calls[k].index].default_value = <<OTHER_OPTION>>
        /\ entries[calls[k + 1].index].default_value # <<OTHER_OPTION>>
        /\ Len(entries[calls[k + 1].index].default_value[1]) > 0

====
